---- MODULE Spec2Model ----
(***************************************************************************)
(* Stratified random sampling of S2BAVG grid tiles for burned-area (BA)    *)
(* validation: src/scripts/sampling.py, function main (src/sampling.py is  *)
(* the same pipeline without the year check, the ids and the summary, and  *)
(* with a seeded draw).  One run of main is a pipeline                     *)
(*   year check -> load -> stratify -> filter -> raw weights -> rescale    *)
(*   -> reconcile -> minimum floor -> per-stratum draw -> selected layer   *)
(*   -> summary                                                            *)
(* and every stage is one action; the sampling loop is one action per      *)
(* iteration, the draw being the only nondeterministic step.               *)
(*                                                                         *)
(* Numbers.  A burned percentage is held as an integer count of            *)
(* 1/BAScale percent, so that the floating point expressions of the code   *)
(* (quantile, mean, sqrt, round, /) are computed exactly on rationals:     *)
(*   - quantile(0.8) is linear interpolation between order statistics; the *)
(*     threshold is held multiplied by 5 (fire_activity_threshold5);       *)
(*   - round() is numpy's round-half-to-even.                              *)
(* A nullable column value is <<>> (NaN) or <<v>>.                         *)
(***************************************************************************)
EXTENDS Integers, Sequences, FiniteSets, TLC

VARIABLES
    year,                  \* argument year (the code holds it as a string)
    total_sample_size,     \* argument total_sample_size
    gpkg,                  \* geometries joined with the layer of the year on Name
    pc,                    \* position of main
    error,                 \* exception that ended the run, "" if none
    files,                 \* directory, layers and files the run has created
    merged_data,           \* rows of merged_data
    filtered_data,         \* rows of filtered_data
    total_allocated,       \* sum of the raw weights
    stratum_sample_sizes,  \* Series stratum label -> int
    difference,            \* total_sample_size - stratum_sample_sizes.sum()
    i,                     \* strata already handled by the sampling loop
    sampled_data,          \* rows of sampled_data
    summary_df             \* rows of summary_df

vars == <<year, total_sample_size, gpkg, pc, error, files, merged_data,
          filtered_data, total_allocated, stratum_sample_sizes, difference, i,
          sampled_data, summary_df>>

----------------------------------------------------------------------------
(* Bounds of the model and constants of the program *)

MaxTiles == 3
MaxBudget == 4

MinYear == 2016
MinPerStratum == 2
land_perc_filter == 50
nocloudy_interval_filter == 10

\* a burned percentage b stands for b / BAScale percent
BAScale == 4

Years == {MinYear - 1, MinYear}
MappedBiome == "Tundra"
BiomeOrder == <<"Mangroves", "Rock and Ice", "Tundra">>
Biomes == {BiomeOrder[k] : k \in DOMAIN BiomeOrder}
BurnedPercs == {1, 4, 64}
\* (land_perc, interval): kept, kept on both limits' edge, too little land,
\* no interval, too long an interval
Qualities ==
    {<<land_perc_filter, <<nocloudy_interval_filter>>>>,
     <<land_perc_filter - 1, <<nocloudy_interval_filter>>>>,
     <<land_perc_filter, <<>>>>,
     <<land_perc_filter, <<nocloudy_interval_filter + 1>>>>}

\* input rows: every biome and burned percentage on tiles of good quality,
\* every quality on tiles of one biome, burned or not
RowsByBiome ==
    {[biome |-> b, burned_perc |-> p, land_perc |-> land_perc_filter + 1,
      median_days_interval_fireseason_nocloudy |-> <<nocloudy_interval_filter - 1>>] :
        b \in Biomes, p \in BurnedPercs}
RowsByQuality ==
    {[biome |-> MappedBiome, burned_perc |-> p, land_perc |-> q[1],
      median_days_interval_fireseason_nocloudy |-> q[2]] :
        p \in {0, 64}, q \in Qualities}

SeqsUpTo(S, n) == UNION {[1..k -> S] : k \in 0..n}

\* the joined table: row k is the tile named k
Named(rows) ==
    [k \in DOMAIN rows |->
        [Name |-> k, biome |-> rows[k].biome, burned_perc |-> rows[k].burned_perc,
         land_perc |-> rows[k].land_perc,
         median_days_interval_fireseason_nocloudy |->
             rows[k].median_days_interval_fireseason_nocloudy]]

Inputs ==
    {Named(r) : r \in SeqsUpTo(RowsByBiome, MaxTiles) \cup SeqsUpTo(RowsByQuality, MaxTiles)}

----------------------------------------------------------------------------
(* Helpers: sums, sorting, rounding *)

RECURSIVE SumSeq(_)
SumSeq(s) == IF s = <<>> THEN 0 ELSE Head(s) + SumSeq(Tail(s))

RECURSIVE Insert(_, _)
Insert(x, s) ==
    IF s = <<>> THEN <<x>>
    ELSE IF x <= Head(s) THEN <<x>> \o s
    ELSE <<Head(s)>> \o Insert(x, Tail(s))

RECURSIVE SortValues(_)
SortValues(s) == IF s = <<>> THEN <<>> ELSE Insert(Head(s), SortValues(Tail(s)))

\* the burned percentage column of a table
BurnedPerc(rows) == [k \in DOMAIN rows |-> rows[k].burned_perc]

\* numpy round of p / q, p >= 0, q > 0: to nearest, a tie to the even neighbour
RoundHalfEven(p, q) ==
    LET fl == p \div q
        r2 == 2 * (p % q)
    IN  IF r2 < q THEN fl
        ELSE IF r2 > q THEN fl + 1
        ELSE IF fl % 2 = 0 THEN fl ELSE fl + 1

\* floor of the square root of p / q
RECURSIVE FloorSqrtFrom(_, _, _)
FloorSqrtFrom(r, p, q) ==
    IF (r + 1) * (r + 1) * q > p THEN r ELSE FloorSqrtFrom(r + 1, p, q)
FloorSqrt(p, q) == FloorSqrtFrom(0, p, q)

\* numpy round of sqrt(p / q): with r = floor(2 * sqrt(p / q)) the root lies in
\* [r/2, (r+1)/2), and it is the tie r/2 exactly when r * r * q = 4 * p
RoundSqrt(p, q) ==
    LET r == FloorSqrt(4 * p, q)
        k == r \div 2
    IN  IF r % 2 = 0 THEN k
        ELSE IF r * r * q = 4 * p THEN (IF k % 2 = 0 THEN k ELSE k + 1)
        ELSE k + 1

----------------------------------------------------------------------------
(* Stratification *)

BiomeRows(rows, b) == SelectSeq(rows, LAMBDA t : t.biome = b)

\* groupby('biome')[burned_perc].quantile(0.8), times 5: position 0.8 * (n - 1)
\* in the sorted values, linear interpolation between the two neighbours
Threshold5(rows, b) ==
    LET v == SortValues(BurnedPerc(BiomeRows(rows, b)))
        n == Len(v)
        lo == (4 * (n - 1)) \div 5
        g == (4 * (n - 1)) % 5
    IN  IF g = 0 THEN 5 * v[lo + 1]
        ELSE 5 * v[lo + 1] + g * (v[lo + 2] - v[lo + 1])

\* FireActivity with the comparison >= : a tile at the threshold is "high"
FireActivity_Mutant(burned_perc, threshold5) ==
    IF 5 * burned_perc >= threshold5 THEN "high" ELSE "low"

FireActivity(burned_perc, threshold5) ==
    IF 5 * burned_perc > threshold5 THEN "high" ELSE "low"

StratumLabel(biome, activity) == biome \o "_" \o activity

biome_code_map(b) ==
    CASE b = "Tropical Forest" -> "1"
      [] b = "Temperate Forest" -> "2"
      [] b = "Boreal Forest" -> "3"
      [] b = "Tropical Savanna" -> "4"
      [] b = "Temperate Savanna" -> "5"
      [] b = "Mediterranean" -> "6"
      [] b = "Deserts & Xeric Shrublands" -> "7"
      [] b = "Tundra" -> "8"
      [] OTHER -> "XX"

IdStratum(y, biome, activity) ==
    ToString(y) \o "_" \o biome_code_map(biome) \o "_"
        \o (IF activity = "high" THEN "1" ELSE "0")

StratifyRow(rows, y, t) ==
    LET thr == Threshold5(rows, t.biome)
        act == FireActivity(t.burned_perc, thr)
    IN  [Name |-> t.Name, biome |-> t.biome, burned_perc |-> t.burned_perc,
         land_perc |-> t.land_perc,
         median_days_interval_fireseason_nocloudy |->
             t.median_days_interval_fireseason_nocloudy,
         fire_activity_threshold5 |-> thr,
         fire_activity |-> act,
         stratum |-> StratumLabel(t.biome, act),
         id_stratum |-> IdStratum(y, t.biome, act)]

StratifyRows(rows, y) == [k \in DOMAIN rows |-> StratifyRow(rows, y, rows[k])]

----------------------------------------------------------------------------
(* Filtering *)

LeqNaN(x, n) == IF x = <<>> THEN FALSE ELSE x[1] <= n
NotNull(x) == x # <<>>

\* Keep with the land comparison > : a tile at the limit is dropped
Keep_Mutant(t) ==
    /\ t.land_perc > land_perc_filter
    /\ LeqNaN(t.median_days_interval_fireseason_nocloudy, nocloudy_interval_filter)
    /\ NotNull(t.median_days_interval_fireseason_nocloudy)

Keep(t) ==
    /\ t.land_perc >= land_perc_filter
    /\ LeqNaN(t.median_days_interval_fireseason_nocloudy, nocloudy_interval_filter)
    /\ NotNull(t.median_days_interval_fireseason_nocloudy)

FilterRows(rows) == SelectSeq(rows, Keep)

----------------------------------------------------------------------------
(* Allocation *)

\* every stratum label in the order of a sorted index ("_high" before "_low")
AllStrata ==
    [k \in 1..(2 * Len(BiomeOrder)) |->
        StratumLabel(BiomeOrder[(k + 1) \div 2], IF k % 2 = 1 THEN "high" ELSE "low")]

StratumRows(rows, s) == SelectSeq(rows, LAMBDA t : t.stratum = s)

\* index of a Series grouped by stratum: the strata that have rows, sorted
StratumIndex(rows) == SelectSeq(AllStrata, LAMBDA s : StratumRows(rows, s) # <<>>)

SeqRange(s) == {s[k] : k \in DOMAIN s}

SumSeries(f) == SumSeq([k \in 1..Len(AllStrata) |->
                            IF AllStrata[k] \in DOMAIN f THEN f[AllStrata[k]] ELSE 0])

\* (stratum_sizes * sqrt(stratum_BA)).round(): Nh * sqrt(S / (BAScale * Nh))
\* with S the sum of the burned percentages, i.e. sqrt(Nh * S / BAScale)
RawWeight(rows, s) ==
    LET r == StratumRows(rows, s)
        Nh == Len(r)
        S == SumSeq(BurnedPerc(r))
    IN  RoundSqrt(Nh * S, BAScale)

RawWeights(rows) == [s \in SeqRange(StratumIndex(rows)) |-> RawWeight(rows, s)]

\* (sizes / total_allocated * total_sample_size).round()
Rescaled(sizes, total, budget) ==
    [s \in DOMAIN sizes |-> RoundHalfEven(sizes[s] * budget, total)]

Position(s) == CHOOSE k \in DOMAIN AllStrata : AllStrata[k] = s

\* Series.nlargest(n).index: the n largest values, of equal values the first
NLargest(sizes, n) ==
    {s \in DOMAIN sizes :
        Cardinality({u \in DOMAIN sizes :
            \/ sizes[u] > sizes[s]
            \/ sizes[u] = sizes[s] /\ Position(u) < Position(s)}) < n}

\* Reconciled without the branch difference > 0
Reconciled_Mutant(sizes, diff) ==
    IF diff < 0
    THEN [s \in DOMAIN sizes |->
            IF s \in NLargest(sizes, 0 - diff) /\ sizes[s] > MinPerStratum
            THEN sizes[s] - 1 ELSE sizes[s]]
    ELSE sizes

Reconciled(sizes, diff) ==
    IF diff > 0
    THEN [s \in DOMAIN sizes |->
            IF s \in NLargest(sizes, diff) THEN sizes[s] + 1 ELSE sizes[s]]
    ELSE IF diff < 0
    THEN [s \in DOMAIN sizes |->
            IF s \in NLargest(sizes, 0 - diff) /\ sizes[s] > MinPerStratum
            THEN sizes[s] - 1 ELSE sizes[s]]
    ELSE sizes

\* Floored with the test sample_size < 1 : only empty allocations are raised
Floored_Mutant(sizes) ==
    [s \in DOMAIN sizes |->
        IF sizes[s] < MinPerStratum - 1
        THEN sizes[s] + (MinPerStratum - sizes[s])
        ELSE sizes[s]]

Floored(sizes) ==
    [s \in DOMAIN sizes |->
        IF sizes[s] < MinPerStratum
        THEN sizes[s] + (MinPerStratum - sizes[s])
        ELSE sizes[s]]

----------------------------------------------------------------------------
(* Sampling *)

Min(a, b) == IF a < b THEN a ELSE b

\* Draws with replace = True
Draws_Mutant(rows, k) == {[j \in 1..k |-> rows[f[j]]] : f \in [1..k -> DOMAIN rows]}

\* DataFrame.sample(n = k, replace = False): k rows in any order, none twice
Draws(rows, k) ==
    {[j \in 1..k |-> rows[f[j]]] :
        f \in {g \in [1..k -> DOMAIN rows] :
                  \A a, b \in 1..k : a # b => g[a] # g[b]}}

SampleSize(sizes, rows, s) == Min(sizes[s], Len(StratumRows(rows, s)))

----------------------------------------------------------------------------
(* Summary *)

CodeOrder == <<"1", "2", "3", "4", "5", "6", "7", "8", "XX">>

\* every id of a year in the order of a sorted index
AllIds(y) ==
    [k \in 1..(2 * Len(CodeOrder)) |->
        ToString(y) \o "_" \o CodeOrder[(k + 1) \div 2] \o "_"
            \o (IF k % 2 = 1 THEN "0" ELSE "1")]

IdRows(rows, id) == SelectSeq(rows, LAMBDA t : t.id_stratum = id)

IdIndex(rows, y) == SelectSeq(AllIds(y), LAMBDA id : IdRows(rows, id) # <<>>)

\* groupby('id_stratum').agg(...), left merge with the counts of sampled_data
Summary(filtered, sampled, y) ==
    LET ids == IdIndex(filtered, y)
    IN  [k \in DOMAIN ids |->
            LET g == IdRows(filtered, ids[k])
            IN  [Stratum |-> k,
                 strata |-> ids[k],
                 biome_group |-> g[1].biome,
                 biome |-> biome_code_map(g[1].biome),
                 ba |-> g[1].fire_activity,
                 Nh |-> Len(g),
                 nh |-> Len(IdRows(sampled, ids[k]))]]

----------------------------------------------------------------------------

YearError == "ValueError: Year must be greater than 2016"

Init ==
    /\ year \in Years
    /\ total_sample_size \in 1..MaxBudget
    /\ gpkg \in Inputs
    /\ pc = "start"
    /\ error = ""
    /\ files = {}
    /\ merged_data = <<>>
    /\ filtered_data = <<>>
    /\ total_allocated = 0
    /\ stratum_sample_sizes = <<>>
    /\ difference = 0
    /\ i = 0
    /\ sampled_data = <<>>
    /\ summary_df = <<>>

inputs == <<year, total_sample_size, gpkg>>

\* CheckYear with the comparison <= : the first year is rejected too
CheckYear_Mutant ==
    /\ pc = "start"
    /\ IF year <= MinYear
       THEN pc' = "failed" /\ error' = YearError
       ELSE pc' = "checked" /\ error' = error
    /\ UNCHANGED <<inputs, files, merged_data, filtered_data, total_allocated,
                   stratum_sample_sizes, difference, i, sampled_data, summary_df>>

\* lines 60-61
CheckYear ==
    /\ pc = "start"
    /\ IF year < MinYear
       THEN pc' = "failed" /\ error' = YearError
       ELSE pc' = "checked" /\ error' = error
    /\ UNCHANGED <<inputs, files, merged_data, filtered_data, total_allocated,
                   stratum_sample_sizes, difference, i, sampled_data, summary_df>>

\* lines 63-77
Load ==
    /\ pc = "checked"
    /\ files' = files \cup {"output_dir"}
    /\ merged_data' = gpkg
    /\ pc' = "loaded"
    /\ UNCHANGED <<inputs, error, filtered_data, total_allocated,
                   stratum_sample_sizes, difference, i, sampled_data, summary_df>>

\* lines 79-120
Stratify ==
    /\ pc = "loaded"
    /\ merged_data' = StratifyRows(merged_data, year)
    /\ files' = files \cup {"stratification"}
    /\ pc' = "stratified"
    /\ UNCHANGED <<inputs, error, filtered_data, total_allocated,
                   stratum_sample_sizes, difference, i, sampled_data, summary_df>>

\* lines 122-132
Filter ==
    /\ pc = "stratified"
    /\ filtered_data' = FilterRows(merged_data)
    /\ files' = files \cup {"filtered"}
    /\ pc' = "filtered"
    /\ UNCHANGED <<inputs, error, merged_data, total_allocated,
                   stratum_sample_sizes, difference, i, sampled_data, summary_df>>

\* lines 134-139
Weigh ==
    /\ pc = "filtered"
    /\ stratum_sample_sizes' = RawWeights(filtered_data)
    /\ total_allocated' = SumSeries(RawWeights(filtered_data))
    /\ pc' = "weighted"
    /\ UNCHANGED <<inputs, error, files, merged_data, filtered_data,
                   difference, i, sampled_data, summary_df>>

\* lines 141-142.  With strata and a zero total every quotient is 0 / 0 = NaN
\* and astype(int) raises; with no stratum the Series is empty and nothing is
\* divided.
Rescale ==
    /\ pc = "weighted"
    /\ IF total_allocated = 0 /\ DOMAIN stratum_sample_sizes # {}
       THEN /\ pc' = "failed"
            /\ error' = "IntCastingNaNError"
            /\ UNCHANGED <<stratum_sample_sizes, difference>>
       ELSE /\ stratum_sample_sizes' =
                  Rescaled(stratum_sample_sizes, total_allocated, total_sample_size)
            /\ difference' = total_sample_size - SumSeries(stratum_sample_sizes')
            /\ pc' = "rescaled"
            /\ error' = error
    /\ UNCHANGED <<inputs, files, merged_data, filtered_data, total_allocated,
                   i, sampled_data, summary_df>>

\* lines 144-150
Reconcile ==
    /\ pc = "rescaled"
    /\ stratum_sample_sizes' = Reconciled(stratum_sample_sizes, difference)
    /\ pc' = "reconciled"
    /\ UNCHANGED <<inputs, error, files, merged_data, filtered_data,
                   total_allocated, difference, i, sampled_data, summary_df>>

\* lines 152-155
MinimumFloor ==
    /\ pc = "reconciled"
    /\ stratum_sample_sizes' = Floored(stratum_sample_sizes)
    /\ pc' = "sampling"
    /\ UNCHANGED <<inputs, error, files, merged_data, filtered_data,
                   total_allocated, difference, i, sampled_data, summary_df>>

\* SampleStratum assigning the draw instead of concatenating it
SampleStratum_Mutant ==
    /\ pc = "sampling"
    /\ i < Len(StratumIndex(filtered_data))
    /\ LET stratum == StratumIndex(filtered_data)[i + 1]
           stratum_data == StratumRows(filtered_data, stratum)
           sample_size == SampleSize(stratum_sample_sizes, filtered_data, stratum)
       IN  \E stratum_sample \in Draws(stratum_data, sample_size) :
               sampled_data' = stratum_sample
    /\ i' = i + 1
    /\ UNCHANGED <<inputs, pc, error, files, merged_data, filtered_data,
                   total_allocated, stratum_sample_sizes, difference, summary_df>>

\* lines 158-163, one iteration
SampleStratum ==
    /\ pc = "sampling"
    /\ i < Len(StratumIndex(filtered_data))
    /\ LET stratum == StratumIndex(filtered_data)[i + 1]
           stratum_data == StratumRows(filtered_data, stratum)
           sample_size == SampleSize(stratum_sample_sizes, filtered_data, stratum)
       IN  \E stratum_sample \in Draws(stratum_data, sample_size) :
               sampled_data' = sampled_data \o stratum_sample
    /\ i' = i + 1
    /\ UNCHANGED <<inputs, pc, error, files, merged_data, filtered_data,
                   total_allocated, stratum_sample_sizes, difference, summary_df>>

\* lines 165-168.  sampled_data starts as pd.DataFrame(), without columns: if
\* the loop never ran, drop(columns=['BA_mean_stratum']) raises KeyError.
WriteSelected ==
    /\ pc = "sampling"
    /\ i = Len(StratumIndex(filtered_data))
    /\ IF i = 0
       THEN pc' = "failed" /\ error' = "KeyError" /\ files' = files
       ELSE pc' = "selected" /\ error' = error /\ files' = files \cup {"selected"}
    /\ UNCHANGED <<inputs, merged_data, filtered_data, total_allocated,
                   stratum_sample_sizes, difference, i, sampled_data, summary_df>>

\* lines 170-197
Summarize ==
    /\ pc = "selected"
    /\ summary_df' = Summary(filtered_data, sampled_data, year)
    /\ files' = files \cup {"summary_csv"}
    /\ pc' = "done"
    /\ UNCHANGED <<inputs, error, merged_data, filtered_data, total_allocated,
                   stratum_sample_sizes, difference, i, sampled_data>>

Next ==
    \/ CheckYear
    \/ Load
    \/ Stratify
    \/ Filter
    \/ Weigh
    \/ Rescale
    \/ Reconcile
    \/ MinimumFloor
    \/ SampleStratum
    \/ WriteSelected
    \/ Summarize

Spec == Init /\ [][Next]_vars

----------------------------------------------------------------------------
(* Properties *)

Strata == SeqRange(StratumIndex(filtered_data))
PopulationOf(s) == Len(StratumRows(filtered_data, s))
RealizedOf(s) == Len(StratumRows(sampled_data, s))
Allocated == pc \in {"sampling", "selected", "done"}
NonzeroBA == \E k \in DOMAIN filtered_data : filtered_data[k].burned_perc > 0
BudgetWithinPopulation == Len(filtered_data) >= total_sample_size

\* the strata whose decrement the reconciliation step skips
Skipped(sizes, diff) ==
    IF diff < 0
    THEN {s \in NLargest(sizes, 0 - diff) : sizes[s] <= MinPerStratum}
    ELSE {}

\* C1 as stated: with an eligible population of at least total_sample_size
\* tiles and a stratum of nonzero mean BA, the allocation sums to exactly
\* total_sample_size after reconciliation and to at least total_sample_size
\* after the minimum floor.
C1_Original ==
    (BudgetWithinPopulation /\ NonzeroBA) =>
        /\ pc = "reconciled" => SumSeries(stratum_sample_sizes) = total_sample_size
        /\ Allocated => SumSeries(stratum_sample_sizes) >= total_sample_size

\* C1 amended: under the same precondition the reconciliation step leaves a sum
\* of total_sample_size plus the number of strata, among the |difference|
\* largest, whose decrement it skipped because their size was <= 2 (so exactly
\* total_sample_size when difference >= 0 or nothing was skipped, and never
\* less), and the minimum floor leaves a sum >= total_sample_size.
C1_AllocationSum ==
    [][(BudgetWithinPopulation /\ NonzeroBA) =>
        /\ Reconcile =>
              SumSeries(stratum_sample_sizes') =
                  total_sample_size
                    + Cardinality(Skipped(stratum_sample_sizes, difference))
        /\ MinimumFloor =>
              SumSeries(stratum_sample_sizes') >= total_sample_size]_vars

\* reconciliation added units and reached the budget exactly
C1_Witness ==
    /\ pc = "reconciled"
    /\ BudgetWithinPopulation /\ NonzeroBA
    /\ difference > 0
    /\ SumSeries(stratum_sample_sizes) = total_sample_size

\* C10 as stated: the reconciliation step raises exactly difference strata,
\* those of largest size, by 1 when difference > 0; when difference < 0 it
\* lowers by 1 those of the |difference| largest strata whose size is > 2;
\* every other size is unchanged and none is lowered below 2.
C10_Reconciliation ==
    [][Reconcile =>
        LET old == stratum_sample_sizes
            new == stratum_sample_sizes'
            raised == {s \in DOMAIN old : new[s] = old[s] + 1}
            lowered == {s \in DOMAIN old : new[s] = old[s] - 1}
            same == {s \in DOMAIN old : new[s] = old[s]}
            largest(T) == \A s \in T : \A u \in DOMAIN old \ T : old[s] >= old[u]
        IN  /\ DOMAIN new = DOMAIN old
            /\ raised \cup lowered \cup same = DOMAIN old
            /\ difference > 0 =>
                  /\ Cardinality(raised) = difference
                  /\ lowered = {}
                  /\ largest(raised)
            /\ difference < 0 =>
                  /\ raised = {}
                  /\ \E T \in SUBSET DOMAIN old :
                        /\ Cardinality(T) = 0 - difference
                        /\ largest(T)
                        /\ lowered = {s \in T : old[s] > MinPerStratum}
            /\ difference = 0 => raised = {} /\ lowered = {}
            /\ \A s \in lowered : new[s] >= MinPerStratum]_vars

\* C2 as stated: at the end of a run the realized stratum sample sizes sum to
\* total_sample_size, unless the eligible population is smaller than
\* total_sample_size, and then every eligible tile is selected.
C2_Original ==
    pc = "done" =>
        IF Len(filtered_data) < total_sample_size
        THEN SeqRange(sampled_data) = SeqRange(filtered_data)
        ELSE Len(sampled_data) = total_sample_size

\* C2 amended: at the end of a completed run the realized stratum sample sizes
\* sum to the sum over the strata of min(allocation, eligible population); so
\* they sum to total_sample_size when the floored allocation sums to
\* total_sample_size and no allocation exceeds its stratum's population, and
\* every eligible tile is selected exactly when every allocation is at least
\* its stratum's population.
C2_RealizedTotal ==
    pc = "done" =>
        LET clamp == [s \in Strata |->
                         Min(stratum_sample_sizes[s], PopulationOf(s))]
        IN  /\ Len(sampled_data) = SumSeries(clamp)
            /\ (/\ SumSeries(stratum_sample_sizes) = total_sample_size
                /\ \A s \in Strata : stratum_sample_sizes[s] <= PopulationOf(s))
                  => Len(sampled_data) = total_sample_size
            /\ SeqRange(sampled_data) = SeqRange(filtered_data)
                  <=> \A s \in Strata : stratum_sample_sizes[s] >= PopulationOf(s)

\* a completed run that realizes the budget exactly, its stratum sampled in part
C2_Witness ==
    /\ pc = "done"
    /\ SumSeries(stratum_sample_sizes) = total_sample_size
    /\ \A s \in Strata : stratum_sample_sizes[s] <= PopulationOf(s)
    /\ Len(sampled_data) = total_sample_size
    /\ Len(sampled_data) < Len(filtered_data)

\* C3: the sampler contributes, for every stratum it has handled,
\* min(allocation, eligible population of the stratum) tiles, no tile twice,
\* each an eligible tile of that stratum; nothing for a stratum not yet handled.
C3_SamplerClamp ==
    Allocated =>
        /\ \A k \in DOMAIN StratumIndex(filtered_data) :
              LET s == StratumIndex(filtered_data)[k]
                  drawn == StratumRows(sampled_data, s)
              IN  /\ k <= i =>
                        Len(drawn) = Min(stratum_sample_sizes[s], PopulationOf(s))
                  /\ k > i => drawn = <<>>
                  /\ SeqRange(drawn) \subseteq SeqRange(StratumRows(filtered_data, s))
        /\ \A a, b \in DOMAIN sampled_data :
              a # b => sampled_data[a].Name # sampled_data[b].Name
        /\ SeqRange(sampled_data) \subseteq SeqRange(filtered_data)

\* after the loop over several strata: one of them clamped to its population,
\* one given exactly its allocation
C3_Witness ==
    /\ pc = "selected"
    /\ \E s \in Strata :
          /\ stratum_sample_sizes[s] > PopulationOf(s)
          /\ RealizedOf(s) = PopulationOf(s)
    /\ \E s \in Strata :
          /\ stratum_sample_sizes[s] <= PopulationOf(s)
          /\ RealizedOf(s) = stratum_sample_sizes[s]

\* C4: after the minimum floor every stratum of the eligible population has an
\* allocation >= 2; at the end a stratum of at least 2 eligible tiles has a
\* realized sample size >= 2 and a stratum of exactly 1 eligible tile has 1.
C4_MinimumFloor ==
    /\ Allocated => \A s \in Strata : stratum_sample_sizes[s] >= MinPerStratum
    /\ pc \in {"selected", "done"} =>
          \A s \in Strata :
              /\ PopulationOf(s) >= MinPerStratum => RealizedOf(s) >= MinPerStratum
              /\ PopulationOf(s) = 1 => RealizedOf(s) = 1

\* the floor raised a stratum of two tiles that reconciliation had left below 2
C4_Witness ==
    /\ pc = "done"
    /\ \E s \in Strata :
          /\ PopulationOf(s) >= MinPerStratum
          /\ Reconciled(Rescaled(RawWeights(filtered_data), total_allocated,
                                 total_sample_size), difference)[s] < MinPerStratum
          /\ RealizedOf(s) = MinPerStratum

Weighed ==
    \/ pc \in {"weighted", "rescaled", "reconciled", "sampling", "selected", "done"}
    \/ pc = "failed" /\ error # YearError

\* C5 as stated: when the raw weights sum to zero the allocation is all zero
\* and the run ends with an empty sample, without an exception.
C5_ZeroWeights ==
    (Weighed /\ total_allocated = 0) =>
        /\ pc # "failed"
        /\ \A s \in DOMAIN stratum_sample_sizes : stratum_sample_sizes[s] = 0
        /\ sampled_data = <<>>

Stratified == "stratification" \in files
Filtered == "filtered" \in files

\* the k-th smallest of the values of a column, by counting
OrderStatistic(v, k) ==
    CHOOSE x \in SeqRange(v) :
        /\ Cardinality({j \in DOMAIN v : v[j] < x}) < k
        /\ k <= Cardinality({j \in DOMAIN v : v[j] <= x})

\* 5 times the 80th percentile of a column: the value at position 0.8 * (n - 1)
\* of the piecewise linear function through the order statistics
Percentile80x5(v) ==
    LET n == Len(v)
        lo == (4 * (n - 1)) \div 5
        g == 4 * (n - 1) - 5 * lo
    IN  IF g = 0 THEN 5 * OrderStatistic(v, lo + 1)
        ELSE (5 - g) * OrderStatistic(v, lo + 1) + g * OrderStatistic(v, lo + 2)

JoinedBA(b) == BurnedPerc(BiomeRows(gpkg, b))

\* C6: after stratification every joined tile has one stratum label, biome_
\* activity; its activity is "high" exactly when its burned percentage is
\* strictly above the 80th percentile of all joined tiles of its biome, "low"
\* otherwise; two tiles share a stratum exactly when they share biome and
\* activity.
C6_Stratification ==
    Stratified =>
        /\ Len(merged_data) = Len(gpkg)
        /\ \A k \in DOMAIN merged_data :
              LET t == merged_data[k]
              IN  /\ t.Name = gpkg[k].Name
                  /\ t.biome = gpkg[k].biome
                  /\ t.burned_perc = gpkg[k].burned_perc
                  /\ t.fire_activity \in {"high", "low"}
                  /\ t.fire_activity = "high"
                        <=> 5 * t.burned_perc > Percentile80x5(JoinedBA(t.biome))
                  /\ t.stratum = t.biome \o "_" \o t.fire_activity
        /\ \A a, b \in DOMAIN merged_data :
              merged_data[a].stratum = merged_data[b].stratum
                  <=> /\ merged_data[a].biome = merged_data[b].biome
                      /\ merged_data[a].fire_activity = merged_data[b].fire_activity

\* a tile above its biome's threshold and a tile exactly at its biome's
\* threshold
C6_Witness ==
    /\ pc = "stratified"
    /\ \E k \in DOMAIN merged_data : merged_data[k].fire_activity = "high"
    /\ \E k \in DOMAIN merged_data :
          /\ 5 * merged_data[k].burned_perc = merged_data[k].fire_activity_threshold5
          /\ merged_data[k].fire_activity = "low"

\* C7: the filter keeps a tile exactly when land_perc >= land_perc_filter and
\* the interval is not null and <= nocloudy_interval_filter; the kept tiles are
\* in their original order, each with every column, threshold, activity and
\* stratum included, as stratification left it.
C7_Filter ==
    Filtered =>
        /\ \A k \in DOMAIN merged_data :
              LET t == merged_data[k]
                  d == t.median_days_interval_fireseason_nocloudy
              IN  (\E j \in DOMAIN filtered_data : filtered_data[j].Name = t.Name)
                      <=> /\ t.land_perc >= land_perc_filter
                          /\ d # <<>>
                          /\ d[1] <= nocloudy_interval_filter
        /\ \A j \in DOMAIN filtered_data :
              /\ filtered_data[j].Name \in DOMAIN merged_data
              /\ filtered_data[j] = merged_data[filtered_data[j].Name]
        /\ \A a, b \in DOMAIN filtered_data :
              a < b => filtered_data[a].Name < filtered_data[b].Name

\* tiles dropped and tiles kept, one kept on the land limit, one kept "high"
\* that the threshold of the eligible tiles alone would make "low"
C7_Witness ==
    /\ pc = "filtered"
    /\ Len(filtered_data) < Len(merged_data)
    /\ \E j \in DOMAIN filtered_data : filtered_data[j].land_perc = land_perc_filter
    /\ \E j \in DOMAIN filtered_data :
          LET t == filtered_data[j]
          IN  /\ t.fire_activity = "high"
              /\ FireActivity(t.burned_perc, Threshold5(filtered_data, t.biome)) = "low"

C9_SummaryPerStratum ==
    pc = "done" =>
        /\ Len(summary_df) = Cardinality(Strata)
        /\ \A s \in Strata :
              \E k \in DOMAIN summary_df :
                  /\ summary_df[k].biome_group \o "_" \o summary_df[k].ba = s
                  /\ summary_df[k].Nh = PopulationOf(s)
                  /\ summary_df[k].nh = RealizedOf(s)
        /\ SumSeq([k \in DOMAIN summary_df |-> summary_df[k].Nh]) = Len(filtered_data)
        /\ SumSeq([k \in DOMAIN summary_df |-> summary_df[k].nh]) = Len(sampled_data)

====
